---- MODULE Spec2Model ----
(***************************************************************************)
(* codebase-mcp: the searchCodebase and getCodebase tool handlers of       *)
(* src/src/tools/codebase.ts.                                              *)
(*                                                                         *)
(* A JavaScript string is modelled as a sequence of one-character strings, *)
(* so that split, trim, replace, indexOf, slice and toLowerCase are        *)
(* computed character by character as the code computes them.  Indices     *)
(* are 0-based as in the source (IndexOf, Slice), -1 meaning "absent".     *)
(* An optional argument is a sequence of length 0 (undefined) or 1.        *)
(***************************************************************************)
EXTENDS Integers, Sequences, FiniteSets, TLC

VARIABLES
    disk,           \* file name -> [kind, raw]: the saved bundle files
    pc,             \* "idle", or the name of the handler that has just returned
    call,           \* arguments of the searchCodebase invocation that returned
    fileBlocks,     \* searchCodebase: the records parsed by that invocation
    found,          \* searchCodebase: position in fileBlocks of the record found, 0 if none
    snippetLines,   \* searchCodebase: found.content.slice(0, maxL)
    thrown,         \* number of exceptions that left a handler uncaught
    content,        \* the response's content array
    output,         \* getCodebase: what the external tool printed
    filtered,       \* getCodebase: output without banner lines, trimmed
    directoryStructure, \* getCodebase: the directory-structure section
    summaryBlock,   \* getCodebase: the summary section
    toolOk,         \* getCodebase, saveCodebase: whether the external tool ran to its end
    toolArgs,       \* getCodebase, saveCodebase: arguments of the invocation that returned
    ignoreFile,     \* .codebaseignore of the working directory as that invocation found it
    command,        \* the command line that invocation gave to execSync (<<>>: none)
    earlier         \* an earlier searchCodebase invocation, as its client saw it

vars == <<disk, pc, call, fileBlocks, found, snippetLines, thrown, content,
          output, filtered, directoryStructure, summaryBlock, toolOk,
          toolArgs, ignoreFile, command, earlier>>

searchVars == <<call, fileBlocks, found, snippetLines>>
reportVars == <<output, filtered, directoryStructure, summaryBlock, toolOk,
                toolArgs, ignoreFile, command>>

-----------------------------------------------------------------------------
(* Bounds of the model.                                                    *)

\* longest bundle, in lines, among the bundles enumerated line by line
MaxDumpLines == 3
\* most content lines in each block of a two-syntax bundle
MaxBlockLines == 1
\* largest explicit maxLines argument
MaxLinesArg == 2
\* how far the long bundles and reports run past the line limits
LongExtra == 1
\* longest report, in lines, among the reports enumerated line by line
MaxOutputLines == 4
MaxIgnoreLines == 2

-----------------------------------------------------------------------------
(* Characters and literal strings of the source.                           *)

Min(a, b) == IF a < b THEN a ELSE b
Max(a, b) == IF a > b THEN a ELSE b

\* what String.prototype.trim removes (the characters of it the model uses)
WhiteSpace == {" ", "\t", "\n", "\r"}
\* what the regular-expression dot does not match
LineTerminators == {"\n", "\r"}

UpperCase == <<"A", "B", "C", "D", "E", "F", "G", "H", "I", "J", "K", "L", "M", "N", "O", "P", "Q", "R", "S", "T", "U", "V", "W", "X", "Y", "Z">>
LowerCase == <<"a", "b", "c", "d", "e", "f", "g", "h", "i", "j", "k", "l", "m", "n", "o", "p", "q", "r", "s", "t", "u", "v", "w", "x", "y", "z">>
Digits == <<"0", "1", "2", "3", "4", "5", "6", "7", "8", "9">>

\* <file path="
XmlOpenPrefix == <<"<", "f", "i", "l", "e", " ", "p", "a", "t", "h", "=", "\"">>
\* ">
XmlOpenSuffix == <<"\"", ">">>
\* # File: (with its trailing space)
HashPrefix == <<"#", " ", "F", "i", "l", "e", ":", " ">>
\* </file>
XmlClose == <<"<", "/", "f", "i", "l", "e", ">">>
\* project.codebase
ProjectCodebase == <<"p", "r", "o", "j", "e", "c", "t", ".", "c", "o", "d", "e", "b", "a", "s", "e">>
\* old.codebase: a second bundle name a caller may pass
OldCodebase == <<"o", "l", "d", ".", "c", "o", "d", "e", "b", "a", "s", "e">>
\* Codebase file not found:
MsgCodebaseNotFound == <<"C", "o", "d", "e", "b", "a", "s", "e", " ", "f", "i", "l", "e", " ", "n", "o", "t", " ", "f", "o", "u", "n", "d", ":", " ">>
\* Parameter 'file' is required.
MsgFileRequired == <<"P", "a", "r", "a", "m", "e", "t", "e", "r", " ", "'", "f", "i", "l", "e", "'", " ", "i", "s", " ", "r", "e", "q", "u", "i", "r", "e", "d", ".">>
\* File "
MsgNotFoundHead == <<"F", "i", "l", "e", " ", "\"">>
\* " not found in codebase.
MsgNotFoundTail == <<"\"", " ", "n", "o", "t", " ", "f", "o", "u", "n", "d", " ", "i", "n", " ", "c", "o", "d", "e", "b", "a", "s", "e", ".">>
\* Error while extracting file:
MsgExtractError == <<"E", "r", "r", "o", "r", " ", "w", "h", "i", "l", "e", " ", "e", "x", "t", "r", "a", "c", "t", "i", "n", "g", " ", "f", "i", "l", "e", ":", " ">>
\* the message of the error fs.readFileSync throws on a directory
MsgEISDIR == <<"E", "I", "S", "D", "I", "R", ":", " ", "i", "l", "l", "e", "g", "a", "l", " ", "o", "p", "e", "r", "a", "t", "i", "o", "n", " ", "o", "n", " ", "a", " ", "d", "i", "r", "e", "c", "t", "o", "r", "y", ",", " ", "r", "e", "a", "d">>

\* Repomix is now available
BannerAvailable == <<"R", "e", "p", "o", "m", "i", "x", " ", "i", "s", " ", "n", "o", "w", " ", "a", "v", "a", "i", "l", "a", "b", "l", "e">>
\* https://repomix.com
BannerUrl == <<"h", "t", "t", "p", "s", ":", "/", "/", "r", "e", "p", "o", "m", "i", "x", ".", "c", "o", "m">>
\* repomix
BannerName == <<"r", "e", "p", "o", "m", "i", "x">>
\* Pack your codebase into AI-friendly formats
BannerSlogan == <<"P", "a", "c", "k", " ", "y", "o", "u", "r", " ", "c", "o", "d", "e", "b", "a", "s", "e", " ", "i", "n", "t", "o", " ", "A", "I", "-", "f", "r", "i", "e", "n", "d", "l", "y", " ", "f", "o", "r", "m", "a", "t", "s">>
\* directory structure: /Directory Structure:?/i compared in lower case
DirectoryStructureLower == <<"d", "i", "r", "e", "c", "t", "o", "r", "y", " ", "s", "t", "r", "u", "c", "t", "u", "r", "e">>
\* Pack Summary
PackSummary == <<"P", "a", "c", "k", " ", "S", "u", "m", "m", "a", "r", "y">>
\* Total Files
TotalFiles == <<"T", "o", "t", "a", "l", " ", "F", "i", "l", "e", "s">>
\* Pack Summary:
PackSummaryColon == <<"P", "a", "c", "k", " ", "S", "u", "m", "m", "a", "r", "y", ":">>
\* Total Files:
TotalFilesColon == <<"T", "o", "t", "a", "l", " ", "F", "i", "l", "e", "s", ":">>
\* <directory_structure>\n
DirectoryStructureOpen == <<"<", "d", "i", "r", "e", "c", "t", "o", "r", "y", "_", "s", "t", "r", "u", "c", "t", "u", "r", "e", ">", "\n">>
\* \n</directory_structure>
DirectoryStructureClose == <<"\n", "<", "/", "d", "i", "r", "e", "c", "t", "o", "r", "y", "_", "s", "t", "r", "u", "c", "t", "u", "r", "e", ">">>
\* Error retrieving codebase:
MsgRetrieveError == <<"E", "r", "r", "o", "r", " ", "r", "e", "t", "r", "i", "e", "v", "i", "n", "g", " ", "c", "o", "d", "e", "b", "a", "s", "e", ":", " ">>
\* Command failed: npx repomix (the message of the error execSync throws)
MsgCommandFailed == <<"C", "o", "m", "m", "a", "n", "d", " ", "f", "a", "i", "l", "e", "d", ":", " ", "n", "p", "x", " ", "r", "e", "p", "o", "m", "i", "x">>

\* the command lines of getCodebase and saveCodebase and the texts of saveCodebase
\* let command (getCodebase): npx repomix --output project.codebase
CmdGetCodebase == <<"n", "p", "x", " ", "r", "e", "p", "o", "m", "i", "x", " ", "-", "-", "o", "u", "t", "p", "u", "t", " ", "p", "r", "o", "j", "e", "c", "t", ".", "c", "o", "d", "e", "b", "a", "s", "e">>
\* let command (saveCodebase), up to the output path: npx repomix --output "
CmdSaveCodebase == <<"n", "p", "x", " ", "r", "e", "p", "o", "m", "i", "x", " ", "-", "-", "o", "u", "t", "p", "u", "t", " ", "\"">>
\* the closing quote of a quoted option value: "
Quote == <<"\"">>
\*  --style 
OptStyle == <<" ", "-", "-", "s", "t", "y", "l", "e", " ">>
\*  --remove-comments
OptRemoveComments == <<" ", "-", "-", "r", "e", "m", "o", "v", "e", "-", "c", "o", "m", "m", "e", "n", "t", "s">>
\*  --no-remove-comments
OptNoRemoveComments == <<" ", "-", "-", "n", "o", "-", "r", "e", "m", "o", "v", "e", "-", "c", "o", "m", "m", "e", "n", "t", "s">>
\*  --remove-empty-lines
OptRemoveEmptyLines == <<" ", "-", "-", "r", "e", "m", "o", "v", "e", "-", "e", "m", "p", "t", "y", "-", "l", "i", "n", "e", "s">>
\*  --no-remove-empty-lines
OptNoRemoveEmptyLines == <<" ", "-", "-", "n", "o", "-", "r", "e", "m", "o", "v", "e", "-", "e", "m", "p", "t", "y", "-", "l", "i", "n", "e", "s">>
\*  --output-show-line-numbers
OptOutputShowLineNumbers == <<" ", "-", "-", "o", "u", "t", "p", "u", "t", "-", "s", "h", "o", "w", "-", "l", "i", "n", "e", "-", "n", "u", "m", "b", "e", "r", "s">>
\*  --show-line-numbers
OptShowLineNumbers == <<" ", "-", "-", "s", "h", "o", "w", "-", "l", "i", "n", "e", "-", "n", "u", "m", "b", "e", "r", "s">>
\*  --no-show-line-numbers
OptNoShowLineNumbers == <<" ", "-", "-", "n", "o", "-", "s", "h", "o", "w", "-", "l", "i", "n", "e", "-", "n", "u", "m", "b", "e", "r", "s">>
\*  --no-file-summary
OptNoFileSummary == <<" ", "-", "-", "n", "o", "-", "f", "i", "l", "e", "-", "s", "u", "m", "m", "a", "r", "y">>
\*  --include-file-summary
OptIncludeFileSummary == <<" ", "-", "-", "i", "n", "c", "l", "u", "d", "e", "-", "f", "i", "l", "e", "-", "s", "u", "m", "m", "a", "r", "y">>
\*  --no-include-file-summary
OptNoIncludeFileSummary == <<" ", "-", "-", "n", "o", "-", "i", "n", "c", "l", "u", "d", "e", "-", "f", "i", "l", "e", "-", "s", "u", "m", "m", "a", "r", "y">>
\*  --no-directory-structure
OptNoDirectoryStructure == <<" ", "-", "-", "n", "o", "-", "d", "i", "r", "e", "c", "t", "o", "r", "y", "-", "s", "t", "r", "u", "c", "t", "u", "r", "e">>
\*  --include-directory-structure
OptIncludeDirectoryStructure == <<" ", "-", "-", "i", "n", "c", "l", "u", "d", "e", "-", "d", "i", "r", "e", "c", "t", "o", "r", "y", "-", "s", "t", "r", "u", "c", "t", "u", "r", "e">>
\*  --no-include-directory-structure
OptNoIncludeDirectoryStructure == <<" ", "-", "-", "n", "o", "-", "i", "n", "c", "l", "u", "d", "e", "-", "d", "i", "r", "e", "c", "t", "o", "r", "y", "-", "s", "t", "r", "u", "c", "t", "u", "r", "e">>
\*  --include "
OptInclude == <<" ", "-", "-", "i", "n", "c", "l", "u", "d", "e", " ", "\"">>
\*  --ignore "
OptIgnore == <<" ", "-", "-", "i", "g", "n", "o", "r", "e", " ", "\"">>
\* default of outputFile: repomix-output.txt
DefaultOutputFile == <<"r", "e", "p", "o", "m", "i", "x", "-", "o", "u", "t", "p", "u", "t", ".", "t", "x", "t">>
\* Codebase saved successfully to 
MsgSavedHead == <<"C", "o", "d", "e", "b", "a", "s", "e", " ", "s", "a", "v", "e", "d", " ", "s", "u", "c", "c", "e", "s", "s", "f", "u", "l", "l", "y", " ", "t", "o", " ">>
\*  (
MsgSavedSizeOpen == <<" ", "(">>
\*  MB)
MsgSavedSizeClose == <<" ", "M", "B", ")">>
\* Failed to save codebase to 
MsgNotSavedHead == <<"F", "a", "i", "l", "e", "d", " ", "t", "o", " ", "s", "a", "v", "e", " ", "c", "o", "d", "e", "b", "a", "s", "e", " ", "t", "o", " ">>
\* . File was not created.
MsgNotSavedTail == <<".", " ", "F", "i", "l", "e", " ", "w", "a", "s", " ", "n", "o", "t", " ", "c", "r", "e", "a", "t", "e", "d", ".">>
\* Error saving codebase: 
MsgSaveError == <<"E", "r", "r", "o", "r", " ", "s", "a", "v", "i", "n", "g", " ", "c", "o", "d", "e", "b", "a", "s", "e", ":", " ">>

-----------------------------------------------------------------------------
(* String operations of JavaScript, on sequences of characters.            *)

\* an index argument of slice, made absolute: negative counts from the end
RelIndex(k, n) == IF k < 0 THEN Max(n + k, 0) ELSE Min(k, n)

\* s.slice(a, b), also Array.prototype.slice
Slice(s, a, b) == SubSeq(s, RelIndex(a, Len(s)) + 1, RelIndex(b, Len(s)))

\* s.slice(a)
SliceFrom(s, a) == Slice(s, a, Len(s))

\* s.startsWith(sub, i)
StartsWithAt(s, sub, i) ==
    /\ i >= 0
    /\ i + Len(sub) <= Len(s)
    /\ \A k \in 1..Len(sub) : s[i + k] = sub[k]

\* the scan of indexOf: the first position from i on where sub occurs, else -1
ScanFor(s, sub, i) ==
    LET last == Len(s) - Len(sub)
    IN  IF \E j \in i..last : StartsWithAt(s, sub, j)
        THEN CHOOSE j \in i..last :
                 /\ StartsWithAt(s, sub, j)
                 /\ \A k \in i..(j - 1) : ~StartsWithAt(s, sub, k)
        ELSE -1

\* s.indexOf(sub, from)
IndexOf(s, sub, from) == ScanFor(s, sub, Max(from, 0))

\* s.includes(sub)
Includes(s, sub) == IndexOf(s, sub, 0) # -1

\* s.endsWith(sub)
EndsWith(s, sub) == StartsWithAt(s, sub, Len(s) - Len(sub))

\* the lower-case letter of each upper-case letter
LowerOf ==
    [c \in {UpperCase[i] : i \in 1..Len(UpperCase)} |->
        LowerCase[CHOOSE i \in 1..Len(UpperCase) : UpperCase[i] = c]]

LowerChar(c) == IF c \in DOMAIN LowerOf THEN LowerOf[c] ELSE c

\* s.toLowerCase() (SubSeq makes the result a sequence in normal form)
ToLowerCase(s) == SubSeq([i \in 1..Len(s) |-> LowerChar(s[i])], 1, Len(s))

\* s.trimStart()
RECURSIVE TrimStart(_)
TrimStart(s) ==
    IF s # <<>> /\ s[1] \in WhiteSpace THEN TrimStart(Tail(s)) ELSE s

\* s.trimEnd()
RECURSIVE TrimEnd(_)
TrimEnd(s) ==
    IF s # <<>> /\ s[Len(s)] \in WhiteSpace
    THEN TrimEnd(SubSeq(s, 1, Len(s) - 1))
    ELSE s

\* s.trim()
Trim(s) == TrimEnd(TrimStart(s))

\* s.split("\n") from the 0-based position `start` on: the piece up to the
\* next line break, then the pieces after it
RECURSIVE SplitFrom(_, _)
SplitFrom(s, start) ==
    LET nl == IndexOf(s, <<"\n">>, start)
    IN  IF nl = -1 THEN <<SubSeq(s, start + 1, Len(s))>>
        ELSE <<SubSeq(s, start + 1, nl)>> \o SplitFrom(s, nl + 1)

\* s.split("\n")
SplitLines(s) == SplitFrom(s, 0)

\* lines.join("\n")
RECURSIVE JoinLines(_)
JoinLines(lines) ==
    IF lines = <<>> THEN <<>>
    ELSE IF Len(lines) = 1 THEN lines[1]
    ELSE LET mid == Len(lines) \div 2
         IN  JoinLines(SubSeq(lines, 1, mid)) \o <<"\n">>
             \o JoinLines(SubSeq(lines, mid + 1, Len(lines)))

\* String(n) of a natural number, as a template literal renders it
RECURSIVE NumberToString(_)
NumberToString(n) ==
    IF n < 10 THEN <<Digits[n + 1]>>
    ELSE NumberToString(n \div 10) \o <<Digits[(n % 10) + 1]>>

-----------------------------------------------------------------------------
(* searchCodebase: the file-block parse loop.                              *)

\* line.match(/^<file path="(.+?)">$/): the captured group, as an optional value
XmlMatch(line) ==
    LET inner == Slice(line, Len(XmlOpenPrefix), Len(line) - Len(XmlOpenSuffix))
    IN  IF /\ Len(line) >= Len(XmlOpenPrefix) + 1 + Len(XmlOpenSuffix)
           /\ StartsWithAt(line, XmlOpenPrefix, 0)
           /\ EndsWith(line, XmlOpenSuffix)
           /\ \A i \in 1..Len(inner) : inner[i] \notin LineTerminators
        THEN <<inner>>
        ELSE <<>>

\* line.match(/^# File: (.+)$/): the captured group, as an optional value
HashMatch(line) ==
    LET rest == SliceFrom(line, Len(HashPrefix))
    IN  IF /\ Len(line) >= Len(HashPrefix) + 1
           /\ StartsWithAt(line, HashPrefix, 0)
           /\ \A i \in 1..Len(rest) : rest[i] \notin LineTerminators
        THEN <<rest>>
        ELSE <<>>

\* line.match(/^<\/file>$/)
CloseMatch(line) == line = XmlClose

\* the loop body without its `</file>` branch: a closing tag seals nothing
\* and is skipped, so the record stays open
ParseLineWithoutClose(st, line) ==
    LET sealed == IF st.currentFile # <<>>
                  THEN Append(st.fileBlocks, st.currentFile[1])
                  ELSE st.fileBlocks
        xmlMatch  == XmlMatch(line)
        hashMatch == HashMatch(line)
    IN  IF xmlMatch # <<>>
        THEN [currentFile |-> <<[path |-> Trim(xmlMatch[1]), content |-> <<>>]>>,
              fileBlocks  |-> sealed]
        ELSE IF hashMatch # <<>>
        THEN [currentFile |-> <<[path |-> Trim(hashMatch[1]), content |-> <<>>]>>,
              fileBlocks  |-> sealed]
        ELSE IF CloseMatch(line)
        THEN st
        ELSE IF st.currentFile # <<>>
        THEN [currentFile |-> <<[st.currentFile[1] EXCEPT !.content = Append(@, line)]>>,
              fileBlocks  |-> st.fileBlocks]
        ELSE st

\* the loop body sealing a record at a delimiter only when it has content:
\* `if (currentFile && currentFile.content.length)`
ParseLineDroppingEmptyRecords(st, line) ==
    LET sealed == IF st.currentFile # <<>> /\ st.currentFile[1].content # <<>>
                  THEN Append(st.fileBlocks, st.currentFile[1])
                  ELSE st.fileBlocks
        xmlMatch  == XmlMatch(line)
        hashMatch == HashMatch(line)
    IN  IF xmlMatch # <<>>
        THEN [currentFile |-> <<[path |-> Trim(xmlMatch[1]), content |-> <<>>]>>,
              fileBlocks  |-> sealed]
        ELSE IF hashMatch # <<>>
        THEN [currentFile |-> <<[path |-> Trim(hashMatch[1]), content |-> <<>>]>>,
              fileBlocks  |-> sealed]
        ELSE IF CloseMatch(line)
        THEN [currentFile |-> <<>>, fileBlocks |-> sealed]
        ELSE IF st.currentFile # <<>>
        THEN [currentFile |-> <<[st.currentFile[1] EXCEPT !.content = Append(@, line)]>>,
              fileBlocks  |-> st.fileBlocks]
        ELSE st

\* the loop body appending only non-empty lines: `if (currentFile && line)`
ParseLineSkippingEmptyLines(st, line) ==
    LET sealed == IF st.currentFile # <<>>
                  THEN Append(st.fileBlocks, st.currentFile[1])
                  ELSE st.fileBlocks
        xmlMatch  == XmlMatch(line)
        hashMatch == HashMatch(line)
    IN  IF xmlMatch # <<>>
        THEN [currentFile |-> <<[path |-> Trim(xmlMatch[1]), content |-> <<>>]>>,
              fileBlocks  |-> sealed]
        ELSE IF hashMatch # <<>>
        THEN [currentFile |-> <<[path |-> Trim(hashMatch[1]), content |-> <<>>]>>,
              fileBlocks  |-> sealed]
        ELSE IF CloseMatch(line)
        THEN [currentFile |-> <<>>, fileBlocks |-> sealed]
        ELSE IF st.currentFile # <<>> /\ line # <<>>
        THEN [currentFile |-> <<[st.currentFile[1] EXCEPT !.content = Append(@, line)]>>,
              fileBlocks  |-> st.fileBlocks]
        ELSE st

\* One iteration of the loop body on `line`; st = [currentFile, fileBlocks],
\* currentFile being <<>> for null and <<record>> for an open record.
ParseLine(st, line) ==
    LET sealed == IF st.currentFile # <<>>
                  THEN Append(st.fileBlocks, st.currentFile[1])
                  ELSE st.fileBlocks
        xmlMatch  == XmlMatch(line)
        hashMatch == HashMatch(line)
    IN  IF xmlMatch # <<>>
        THEN [currentFile |-> <<[path |-> Trim(xmlMatch[1]), content |-> <<>>]>>,
              fileBlocks  |-> sealed]
        ELSE IF hashMatch # <<>>
        THEN [currentFile |-> <<[path |-> Trim(hashMatch[1]), content |-> <<>>]>>,
              fileBlocks  |-> sealed]
        ELSE IF CloseMatch(line)
        THEN [currentFile |-> <<>>, fileBlocks |-> sealed]
        ELSE IF st.currentFile # <<>>
        THEN [currentFile |-> <<[st.currentFile[1] EXCEPT !.content = Append(@, line)]>>,
              fileBlocks  |-> st.fileBlocks]
        ELSE st

\* for (let i = 0; i < lines.length; i++) { ... }
RECURSIVE ParseLoop(_, _, _)
ParseLoop(lines, i, st) ==
    IF i >= Len(lines) THEN st
    ELSE ParseLoop(lines, i + 1, ParseLine(st, lines[i + 1]))

\* the parse without the seal after the loop
ParseFileBlocksWithoutFinalSeal(lines) ==
    ParseLoop(lines, 0, [currentFile |-> <<>>, fileBlocks |-> <<>>]).fileBlocks

\* the whole parse: the loop, then the seal of a record still open at the end
ParseFileBlocks(lines) ==
    LET st == ParseLoop(lines, 0, [currentFile |-> <<>>, fileBlocks |-> <<>>])
    IN  IF st.currentFile # <<>>
        THEN Append(st.fileBlocks, st.currentFile[1])
        ELSE st.fileBlocks

-----------------------------------------------------------------------------
(* searchCodebase: path normalisation, lookup and snippet rendering.       *)

\* default of maxLines: `maxLines ?? 40`
DefaultMaxLines == 40

\* p.replace(/^\.\//, "")
StripDotSlash(p) == IF StartsWithAt(p, <<".", "/">>, 0) THEN SliceFrom(p, 2) ELSE p

\* p.replace(/\\/g, "/")
BackslashesToSlashes(p) ==
    SubSeq([i \in 1..Len(p) |-> IF p[i] = "\\" THEN "/" ELSE p[i]], 1, Len(p))

normalizePath(p) == Trim(BackslashesToSlashes(StripDotSlash(p)))

\* Array.prototype.find over positions: the first of `hits`, 0 (undefined) if none
FirstOf(hits) == IF hits = {} THEN 0 ELSE CHOOSE k \in hits : \A j \in hits : k <= j

\* the exact pass: fileBlocks.find(f => normalizePath(f.path) === requested)
FindExact(blocks, requested) ==
    FirstOf({k \in 1..Len(blocks) : normalizePath(blocks[k].path) = requested})

\* the case-insensitive pass
FindIgnoreCase(blocks, requested) ==
    FirstOf({k \in 1..Len(blocks) :
                ToLowerCase(normalizePath(blocks[k].path)) = ToLowerCase(requested)})

\* the lookup with the case-insensitive pass alone
FindBlockIgnoringCaseOnly(blocks, requested) == FindIgnoreCase(blocks, requested)

\* let found = find(exact); if (!found) found = find(ignoring case)
FindBlock(blocks, requested) ==
    LET exact == FindExact(blocks, requested)
    IN  IF exact # 0 THEN exact ELSE FindIgnoreCase(blocks, requested)

\* `maxLines || 40`: a limit of 0 taken for an omitted one
MaxLWithOr(maxLines) ==
    IF maxLines = <<>> \/ maxLines[1] = 0 THEN DefaultMaxLines ELSE maxLines[1]

\* const maxL = maxLines ?? 40
MaxL(maxLines) == IF maxLines = <<>> THEN DefaultMaxLines ELSE maxLines[1]

\* found.content.slice(0, maxL)
SnippetLines(lines, maxLines) == Slice(lines, 0, MaxL(maxLines))

\* for (i ...) snippet += ` ${i + 1}: ${snippetLines[i]}\n`: what the
\* iterations i <= k < n append, in order
RECURSIVE RenderSnippet(_, _, _)
RenderSnippet(lines, i, n) ==
    IF i >= n THEN <<>>
    ELSE IF n = i + 1
    THEN <<" ">> \o NumberToString(i + 1) \o <<":", " ">> \o lines[i + 1] \o <<"\n">>
    ELSE LET mid == (i + n) \div 2
         IN  RenderSnippet(lines, i, mid) \o RenderSnippet(lines, mid, n)

\* snippet.trim(): the body put between the wrapper's two lines
SnippetBody(lines) == Trim(RenderSnippet(lines, 0, Len(lines)))

\* `<file path="${found.path}">\n${snippet.trim()}\n</file>`
FileText(path, lines) ==
    XmlOpenPrefix \o path \o XmlOpenSuffix \o <<"\n">> \o SnippetBody(lines)
    \o <<"\n">> \o XmlClose

-----------------------------------------------------------------------------
(* searchCodebase: the handler.                                            *)

\* { content: [{ type: "text", text }] }
TextResponse(text) == <<[type |-> "text", text |-> text]>>

\* codebase || "project.codebase"
CodebaseFile(args) ==
    IF args.codebase = <<>> \/ args.codebase[1] = <<>>
    THEN ProjectCodebase
    ELSE args.codebase[1]

\* !file
FileMissing(args) == args.file = <<>> \/ args.file[1] = <<>>

\* what a handler invocation leaves in its locals when none of them was assigned
NoLocals == [fileBlocks |-> <<>>, found |-> 0, snippetLines |-> <<>>]

\* The body of the try block on the files `d`: either it returns a response or
\* it throws (fs.readFileSync on a path that exists but is no regular file).
SearchBody(d, args) ==
    LET codebaseFile == CodebaseFile(args)
        blocks       == ParseFileBlocks(SplitLines(d[codebaseFile].raw))
        requested    == normalizePath(args.file[1])
        at           == FindBlock(blocks, requested)
        lines        == SnippetLines(blocks[at].content, args.maxLines)
    IN  IF d[codebaseFile].kind = "absent"
        THEN [outcome |-> "return", locals |-> NoLocals,
              content |-> TextResponse(MsgCodebaseNotFound \o codebaseFile)]
        ELSE IF FileMissing(args)
        THEN [outcome |-> "return", locals |-> NoLocals,
              content |-> TextResponse(MsgFileRequired)]
        ELSE IF d[codebaseFile].kind = "dir"
        THEN [outcome |-> "throw", locals |-> NoLocals, message |-> MsgEISDIR]
        ELSE IF at = 0
        THEN [outcome |-> "return",
              locals  |-> [NoLocals EXCEPT !.fileBlocks = blocks],
              content |-> TextResponse(MsgNotFoundHead \o args.file[1] \o MsgNotFoundTail)]
        ELSE [outcome |-> "return",
              locals  |-> [fileBlocks |-> blocks, found |-> at, snippetLines |-> lines],
              content |-> TextResponse(FileText(blocks[at].path, lines))]

\* the handler without its catch clause
SearchHandlerWithoutCatch(d, args) == SearchBody(d, args)

\* the handler answering from a cache of responses kept by arguments: a
\* call whose arguments equal those of the earlier call gets its response
SearchHandlerWithResponseCache(d, args) ==
    LET r == SearchBody(d, args)
    IN  IF earlier.content # <<>> /\ earlier.args = args
        THEN [outcome |-> "return", locals |-> r.locals, content |-> earlier.content]
        ELSE IF r.outcome = "throw"
        THEN [outcome |-> "return", locals |-> r.locals,
              content |-> TextResponse(MsgExtractError \o r.message)]
        ELSE r

\* try { body } catch (error) { return the error's message as text }
SearchHandler(d, args) ==
    LET r == SearchBody(d, args)
    IN  IF r.outcome = "throw"
        THEN [outcome |-> "return", locals |-> r.locals,
              content |-> TextResponse(MsgExtractError \o r.message)]
        ELSE r

-----------------------------------------------------------------------------
(* getCodebase and saveCodebase: ignore patterns and the command line.     *)

\* truthiness of an optional string: given and not empty
Truthy(opt) == opt # <<>> /\ opt[1] # <<>>

\* lines.join(",")
RECURSIVE JoinCommas(_)
JoinCommas(lines) ==
    IF lines = <<>> THEN <<>>
    ELSE IF Len(lines) = 1 THEN lines[1]
    ELSE lines[1] \o <<",">> \o JoinCommas(Tail(lines))

\* .map(line => line.trim())
RECURSIVE TrimEach(_)
TrimEach(lines) ==
    IF lines = <<>> THEN <<>> ELSE <<Trim(lines[1])>> \o TrimEach(Tail(lines))

\* the filter of the ignore file's lines: line && !line.startsWith("#")
IsPatternLine(line) == line # <<>> /\ line[1] # "#"

\* getCodebaseIgnoreGlobs on a .codebaseignore that is absent or a regular
\* file: the comma-joined patterns as an optional value, <<>> for undefined
getCodebaseIgnoreGlobs(file) ==
    IF file.kind = "absent" THEN <<>>
    ELSE LET lines == SelectSeq(TrimEach(SplitLines(file.raw)), IsPatternLine)
         IN  IF Len(lines) = 0 THEN <<>> ELSE <<JoinCommas(lines)>>

\* the merge putting the file's patterns before the caller's
CombinedIgnoreFileFirst(ignorePatterns, ignoreFromFile) ==
    IF Truthy(ignorePatterns) /\ Truthy(ignoreFromFile)
    THEN <<ignoreFromFile[1] \o <<",">> \o ignorePatterns[1]>>
    ELSE IF Truthy(ignorePatterns) THEN ignorePatterns
    ELSE IF Truthy(ignoreFromFile) THEN ignoreFromFile
    ELSE <<>>

\* combinedIgnore, as an optional value
CombinedIgnore(ignorePatterns, ignoreFromFile) ==
    IF Truthy(ignorePatterns) /\ Truthy(ignoreFromFile)
    THEN <<ignorePatterns[1] \o <<",">> \o ignoreFromFile[1]>>
    ELSE IF Truthy(ignorePatterns) THEN ignorePatterns
    ELSE IF Truthy(ignoreFromFile) THEN ignoreFromFile
    ELSE <<>>

\* if (combinedIgnore) command += ` --ignore "${combinedIgnore}"`
IgnoreOption(combinedIgnore) ==
    IF Truthy(combinedIgnore) THEN OptIgnore \o combinedIgnore[1] \o Quote ELSE <<>>

\* if (includePatterns) command += ` --include "${includePatterns}"`
IncludeOption(includePatterns) ==
    IF Truthy(includePatterns) THEN OptInclude \o includePatterns[1] \o Quote ELSE <<>>

\* if (format) command += ` --style ${format}`
StyleOption(format) == IF Truthy(format) THEN OptStyle \o format[1] ELSE <<>>

\* an option added when an optional boolean is exactly `value`
FlagOption(flag, value, option) == IF flag = <<value>> THEN option ELSE <<>>

\* process.cwd(): the directory the server runs in
ProcessCwd == <<"/", "s">>

\* cwd || process.cwd()
WorkingDir(args) == IF Truthy(args.cwd) THEN args.cwd[1] ELSE ProcessCwd

\* path.join(dir, file) for a directory without trailing slash and a plain
\* file name, where joining is all that normalisation does
PathJoin(dir, file) == dir \o <<"/">> \o file

\* path.isAbsolute(outputFile) ? outputFile : path.join(workingDir, outputFile)
OutputPath(args) ==
    IF args.outputFile # <<>> /\ args.outputFile[1] = "/"
    THEN args.outputFile
    ELSE PathJoin(WorkingDir(args), args.outputFile)

\* the command line of getCodebase, given what the ignore file supplied
GetCodebaseCommand(args, ignoreFromFile) ==
    CmdGetCodebase
    \o StyleOption(args.format)
    \o FlagOption(args.removeComments, TRUE, OptRemoveComments)
    \o FlagOption(args.removeEmptyLines, TRUE, OptRemoveEmptyLines)
    \o FlagOption(args.showLineNumbers, TRUE, OptOutputShowLineNumbers)
    \o FlagOption(args.includeFileSummary, FALSE, OptNoFileSummary)
    \o FlagOption(args.includeDirectoryStructure, FALSE, OptNoDirectoryStructure)
    \o IncludeOption(args.includePatterns)
    \o IgnoreOption(CombinedIgnore(args.ignorePatterns, ignoreFromFile))

\* the command line of saveCodebase, given what the ignore file supplied
SaveCodebaseCommand(args, ignoreFromFile) ==
    CmdSaveCodebase \o OutputPath(args) \o Quote
    \o StyleOption(args.format)
    \o FlagOption(args.includeFileSummary, TRUE, OptIncludeFileSummary)
    \o FlagOption(args.includeFileSummary, FALSE, OptNoIncludeFileSummary)
    \o FlagOption(args.includeDirectoryStructure, TRUE, OptIncludeDirectoryStructure)
    \o FlagOption(args.includeDirectoryStructure, FALSE, OptNoIncludeDirectoryStructure)
    \o FlagOption(args.removeComments, TRUE, OptRemoveComments)
    \o FlagOption(args.removeComments, FALSE, OptNoRemoveComments)
    \o FlagOption(args.removeEmptyLines, TRUE, OptRemoveEmptyLines)
    \o FlagOption(args.removeEmptyLines, FALSE, OptNoRemoveEmptyLines)
    \o FlagOption(args.showLineNumbers, TRUE, OptShowLineNumbers)
    \o FlagOption(args.showLineNumbers, FALSE, OptNoShowLineNumbers)
    \o IncludeOption(args.includePatterns)
    \o IgnoreOption(CombinedIgnore(args.ignorePatterns, ignoreFromFile))

-----------------------------------------------------------------------------
(* getCodebase: banner filter, section extraction, response.               *)

\* number of lines of the fallback summary: lines.slice(-20)
FallbackLines == 20

\* the filter comparing the tool's name in the case given only
KeepLineCaseSensitive(line) ==
    /\ ~Includes(line, BannerAvailable)
    /\ ~Includes(line, BannerUrl)
    /\ ~Includes(line, BannerName)
    /\ ~Includes(line, BannerSlogan)

\* the filter's predicate: the line names none of the banners
KeepLine(line) ==
    /\ ~Includes(line, BannerAvailable)
    /\ ~Includes(line, BannerUrl)
    /\ ~Includes(ToLowerCase(line), BannerName)
    /\ ~Includes(line, BannerSlogan)

\* lines.filter(KeepLine)
FilterLines(lines) == SelectSeq(lines, KeepLine)

\* output.split('\n').filter(...).join('\n').trim()
FilterBanners(text) == Trim(JoinLines(FilterLines(SplitLines(text))))

\* the match without the i flag: /Directory Structure:?/
DirStartMatchCaseSensitive(text) ==
    LET heading == <<"D", "i", "r", "e", "c", "t", "o", "r", "y", " ", "S", "t", "r", "u", "c", "t", "u", "r", "e">>
        i == IndexOf(text, heading, 0)
        n == Len(heading)
    IN  IF i = -1 THEN <<>>
        ELSE IF StartsWithAt(text, <<":">>, i + n)
        THEN <<Slice(text, i, i + n + 1)>>
        ELSE <<Slice(text, i, i + n)>>

\* text.match(/Directory Structure:?/i): the matched text, as an optional value
DirStartMatch(text) ==
    LET i == IndexOf(ToLowerCase(text), DirectoryStructureLower, 0)
        n == Len(DirectoryStructureLower)
    IN  IF i = -1 THEN <<>>
        ELSE IF StartsWithAt(text, <<":">>, i + n)
        THEN <<Slice(text, i, i + n + 1)>>
        ELSE <<Slice(text, i, i + n)>>

\* text.match(/(Pack Summary:|Total Files:)/): the matched text, as an optional value
SummaryStartMatch(text) ==
    LET p == IndexOf(text, PackSummaryColon, 0)
        t == IndexOf(text, TotalFilesColon, 0)
    IN  IF p = -1 /\ t = -1 THEN <<>>
        ELSE IF t = -1 \/ (p # -1 /\ p < t) THEN <<PackSummaryColon>>
        ELSE <<TotalFilesColon>>

\* the section never cut at the next block: endIdx left at the end of the text
DirectoryStructureToEnd(text) ==
    LET dirStart == DirStartMatch(text)
    IN  IF dirStart = <<>> THEN <<>>
        ELSE Trim(SliceFrom(text, IndexOf(text, dirStart[1], 0) + Len(dirStart[1])))

\* "Extract directory structure if present"
DirectoryStructureOf(text) ==
    LET dirStart == DirStartMatch(text)
    IN  IF dirStart = <<>> THEN <<>>
        ELSE
          LET idx           == IndexOf(text, dirStart[1], 0)
              summaryIdx    == IndexOf(text, PackSummary, idx + 1)
              totalFilesIdx == IndexOf(text, TotalFiles, idx + 1)
              endIdx1       == IF summaryIdx # -1 /\ summaryIdx > idx
                               THEN Min(Len(text), summaryIdx)
                               ELSE Len(text)
              endIdx        == IF totalFilesIdx # -1 /\ totalFilesIdx > idx
                               THEN Min(endIdx1, totalFilesIdx)
                               ELSE endIdx1
          IN  IF endIdx # Len(text)
              THEN Trim(Slice(text, idx + Len(dirStart[1]), endIdx))
              ELSE Trim(SliceFrom(text, idx + Len(dirStart[1])))

\* the fallback taking lines.slice(0, 20), the first lines
SummaryBlockFirstLines(text) ==
    LET summaryStart == SummaryStartMatch(text)
    IN  IF summaryStart # <<>>
        THEN Trim(SliceFrom(text, IndexOf(text, summaryStart[1], 0)))
        ELSE JoinLines(Slice(SplitLines(Trim(text)), 0, FallbackLines))

\* "Return only the summary block if it exists", else the last 20 lines
SummaryBlockOf(text) ==
    LET summaryStart == SummaryStartMatch(text)
    IN  IF summaryStart # <<>>
        THEN Trim(SliceFrom(text, IndexOf(text, summaryStart[1], 0)))
        ELSE LET lines == SplitLines(Trim(text))
             IN  JoinLines(Slice(lines, -FallbackLines, Len(lines)))

\* "Assemble response with directory structure (if found)"
ContentArr(dirStructure, summary) ==
    (IF dirStructure # <<>>
     THEN TextResponse(DirectoryStructureOpen \o dirStructure \o DirectoryStructureClose)
     ELSE <<>>)
    \o TextResponse(summary)

NoSections == [filtered |-> <<>>, directoryStructure |-> <<>>, summaryBlock |-> <<>>]

\* The body of the try block, given the arguments, the .codebaseignore of
\* the working directory and how the external tool ran: reading an ignore
\* file that is a directory throws before any command is run; execSync
\* either returns what the tool printed or throws.
GetCodebaseBody(args, file, run) ==
    LET cmd     == GetCodebaseCommand(args, getCodebaseIgnoreGlobs(file))
        text    == FilterBanners(run.stdout)
        dir     == DirectoryStructureOf(text)
        summary == SummaryBlockOf(text)
    IN  IF file.kind = "dir"
        THEN [outcome |-> "throw", command |-> <<>>, output |-> <<>>,
              sections |-> NoSections, message |-> MsgEISDIR]
        ELSE IF ~run.ok
        THEN [outcome |-> "throw", command |-> cmd, output |-> <<>>,
              sections |-> NoSections, message |-> MsgCommandFailed]
        ELSE [outcome  |-> "return", command |-> cmd, output |-> run.stdout,
              sections |-> [filtered |-> text, directoryStructure |-> dir,
                            summaryBlock |-> summary],
              content  |-> ContentArr(dir, summary)]

\* try { body } catch (error) { return the error's message as text }
GetCodebaseHandler(args, file, run) ==
    LET r == GetCodebaseBody(args, file, run)
    IN  IF r.outcome = "throw"
        THEN [outcome |-> "return", command |-> r.command, output |-> r.output,
              sections |-> r.sections,
              content |-> TextResponse(MsgRetrieveError \o r.message)]
        ELSE r

-----------------------------------------------------------------------------
(* saveCodebase: the report on the file written.                           *)

\* bytes in a megabyte: stats.size / (1024 * 1024)
BytesPerMB == 1048576

\* two decimal digits
TwoDigits(n) == <<Digits[(n \div 10) + 1], Digits[(n % 10) + 1]>>

\* (bytes / (1024 * 1024)).toFixed(2), rounding to the nearest hundredth
ToFixed2(bytes) ==
    LET hundredths == (bytes * 200 + BytesPerMB) \div (2 * BytesPerMB)
    IN  NumberToString(hundredths \div 100) \o <<".">> \o TwoDigits(hundredths % 100)

\* The body of the try block; run tells whether the tool ran to its end,
\* whether the output file exists afterwards, and its size in bytes.
SaveCodebaseBody(args, file, run) ==
    LET cmd == SaveCodebaseCommand(args, getCodebaseIgnoreGlobs(file))
    IN  IF file.kind = "dir"
        THEN [outcome |-> "throw", command |-> <<>>, message |-> MsgEISDIR]
        ELSE IF ~run.ok
        THEN [outcome |-> "throw", command |-> cmd, message |-> MsgCommandFailed]
        ELSE IF run.created
        THEN [outcome |-> "return", command |-> cmd,
              content |-> TextResponse(MsgSavedHead \o OutputPath(args) \o MsgSavedSizeOpen
                                       \o ToFixed2(run.size) \o MsgSavedSizeClose)]
        ELSE [outcome |-> "return", command |-> cmd,
              content |-> TextResponse(MsgNotSavedHead \o OutputPath(args)
                                       \o MsgNotSavedTail)]

\* try { body } catch (error) { return the error's message as text }
SaveCodebaseHandler(args, file, run) ==
    LET r == SaveCodebaseBody(args, file, run)
    IN  IF r.outcome = "throw"
        THEN [outcome |-> "return", command |-> r.command,
              content |-> TextResponse(MsgSaveError \o r.message)]
        ELSE r

-----------------------------------------------------------------------------
(* The inputs the model draws from.                                        *)

\* a/b
PathAB == <<"a", "/", "b">>

XmlOpenLine(p) == XmlOpenPrefix \o p \o XmlOpenSuffix
HashLine(p) == HashPrefix \o p

\* lines that are no delimiter: text, an empty line, text with a trailing blank
ContentLines == {<<"x">>, <<>>, <<"y", " ">>}

\* the delimiter lines: both opening syntaxes, with paths differing in letter
\* case, and the closing tag
DelimiterLines == {XmlOpenLine(PathAB), HashLine(<<"A", "/", "b">>), XmlClose}

DumpLines == ContentLines \cup DelimiterLines

\* content lines of the two-syntax bundles: text, a closing tag followed by a
\* blank (no delimiter), text with a trailing blank
BlockLines == {<<"x">>, XmlClose \o <<" ">>, <<"y", " ">>}

\* all sequences over S of length lo..hi
SeqsOf(S, lo, hi) == UNION {[1..n -> S] : n \in lo..hi}

\* a bundle enumerated line by line (split("\n") never yields zero lines)
ShortDumps == {JoinLines(ls) : ls \in SeqsOf(DumpLines, 1, MaxDumpLines)}

\* one XML-delimited file, then one heading-delimited file
MixedDumps ==
    {JoinLines(<<XmlOpenLine(a)>> \o c1 \o <<XmlClose>> \o gap \o <<HashLine(b)>> \o c2) :
        a \in {PathAB, <<" ", "c">>}, b \in {PathAB, <<"A", "/", "b">>},
        c1 \in SeqsOf(BlockLines, 0, MaxBlockLines),
        c2 \in SeqsOf(BlockLines, 0, MaxBlockLines),
        gap \in {<<>>, <<<<"x">>>>}}

\* one heading-delimited file about as long as the default line limit
LongDumps ==
    {JoinLines(<<HashLine(PathAB)>> \o [i \in 1..n |-> <<"l">>]) :
        n \in (DefaultMaxLines - 1)..(DefaultMaxLines + LongExtra)}

Dumps == ShortDumps \cup MixedDumps \cup LongDumps

FileNames == {ProjectCodebase, OldCodebase}

\* what the model writes under each name
DumpsOf(name) ==
    IF name = ProjectCodebase THEN Dumps ELSE {JoinLines(<<HashLine(PathAB), <<"o">>>>)}

Absent == [kind |-> "absent", raw |-> <<>>]
Directory == [kind |-> "dir", raw |-> <<>>]
RegularFile(raw) == [kind |-> "file", raw |-> raw]

\* spellings of a/b: leading ./ or not, backslash or slash, a blank before,
\* after or on neither side
Spelling(dot, sep, lead, trail) ==
    lead \o (IF dot THEN <<".", "/">> ELSE <<>>) \o <<"a", sep, "b">> \o trail

Spellings ==
    {Spelling(dot, sep, ws[1], ws[2]) :
        dot \in BOOLEAN, sep \in {"/", "\\"},
        ws \in {<<<<>>, <<>>>>, <<<<" ">>, <<>>>>, <<<<>>, <<" ">>>>}}

RequestedFiles ==
    {<<s>> : s \in Spellings}
    \cup {<<>>, <<<<>>>>, <<<<"A", "/", "B">>>>, <<<<"q">>>>}

Calls ==
    {[file |-> f, codebase |-> <<>>, maxLines |-> <<>>] : f \in RequestedFiles}
    \cup {[file |-> <<PathAB>>, codebase |-> <<>>, maxLines |-> <<n>>] : n \in 0..MaxLinesArg}
    \cup {[file |-> <<PathAB>>, codebase |-> c, maxLines |-> <<>>] :
            c \in {<<<<>>>>, <<OldCodebase>>}}
    \cup {[file |-> <<>>, codebase |-> <<OldCodebase>>, maxLines |-> <<>>]}

NoCall == [file |-> <<>>, codebase |-> <<>>, maxLines |-> <<>>]

\* Directory Structure:
HeadingWithColon == <<"D", "i", "r", "e", "c", "t", "o", "r", "y", " ", "S", "t", "r", "u", "c", "t", "u", "r", "e", ":">>
\* Total Files: 3
TotalFilesLine == <<"T", "o", "t", "a", "l", " ", "F", "i", "l", "e", "s", ":", " ", "3">>
\* RePoMix v1
BannerMixedCase == <<"R", "e", "P", "o", "M", "i", "x", " ", "v", "1">>

\* the lines a report is made of: the heading (in lower case and without
\* colon in the short reports, as printed in the long ones), the summary
\* markers with and without colon, indented text, and banner lines
MarkerLines == {PackSummaryColon, PackSummary, TotalFilesLine}
PlainLines == {<<" ", "t">>}
ReportLines ==
    {DirectoryStructureLower, BannerMixedCase} \cup MarkerLines \cup PlainLines

\* a report enumerated line by line
ShortOutputs == {JoinLines(ls) : ls \in SeqsOf(ReportLines, 1, MaxOutputLines)}

\* a report without summary marker about as long as the fallback summary:
\* numbered lines, a heading or not on line 1, a banner on line b (0: none)
LongOutputs ==
    {JoinLines([i \in 1..n |->
                  IF i = b THEN BannerSlogan
                  ELSE IF i = 1 /\ headed THEN HeadingWithColon
                  ELSE NumberToString(i)]) :
        n \in (FallbackLines - 1)..(FallbackLines + LongExtra),
        b \in {0, 1, 2, FallbackLines},
        headed \in BOOLEAN}

Outputs == ShortOutputs \cup LongOutputs

\* the bundle the tool leaves in project.codebase beside its report
ReportedBundle == JoinLines(<<HashLine(PathAB), <<"o">>>>)

\* the bundles project.codebase is rewritten with: one heading-delimited
\* file a/b of no or one line
RewrittenDumps ==
    {JoinLines(<<HashLine(PathAB)>> \o c) : c \in SeqsOf(ContentLines, 0, 1)}

\* no earlier invocation kept
NoEarlier == [args |-> NoCall, file |-> Absent, content |-> <<>>]

\* how a run of the external tool can end
ToolRuns ==
    {[ok |-> TRUE, stdout |-> o] : o \in Outputs} \cup {[ok |-> FALSE, stdout |-> <<>>]}

\* a project directory given as cwd
ProjectDir == <<"/", "p">>

\* what the tool prints when run in the project directory, or it fails
ProjectReport == JoinLines(<<HeadingWithColon, <<" ", "t">>, PackSummaryColon>>)
ProjectRuns == {[ok |-> TRUE, stdout |-> ProjectReport], [ok |-> FALSE, stdout |-> <<>>]}

\* the runs of the tool by working directory: every report in the server's
\* own directory, the project's report in the project directory
ToolRunsIn(dir) == IF dir = ProcessCwd THEN ToolRuns ELSE ProjectRuns

\* lines of a .codebaseignore: patterns bare and padded (with a carriage
\* return), an empty line, comments at the start and after blanks
IgnoreLines ==
    {<<"a">>, <<" ", "b", "\r">>, <<>>, <<"#", "c">>, <<" ", "#", "d">>}

\* the .codebaseignore of the project directory: absent, a directory, or a
\* file of up to MaxIgnoreLines lines
IgnoreFiles ==
    {Absent, Directory}
        \cup {RegularFile(JoinLines(ls)) : ls \in SeqsOf(IgnoreLines, 1, MaxIgnoreLines)}

\* the server's own directory holds no .codebaseignore
IgnoreFilesIn(dir) == IF dir = ProcessCwd THEN {Absent} ELSE IgnoreFiles

\* ignorePatterns: omitted, empty, two patterns
IgnoreArgs == {<<>>, <<<<>>>>, <<<<"x", ",", "y">>>>}

\* the arguments all omitted
NoToolArgs ==
    [cwd |-> <<>>, format |-> <<>>, includeFileSummary |-> <<>>,
     includeDirectoryStructure |-> <<>>, removeComments |-> <<>>,
     removeEmptyLines |-> <<>>, showLineNumbers |-> <<>>,
     includePatterns |-> <<>>, ignorePatterns |-> <<>>]

\* every option given: a style, the flags that add an option to either
\* command line, include patterns
EveryOption ==
    [cwd |-> <<>>, format |-> <<<<"x", "m", "l">>>>, includeFileSummary |-> <<FALSE>>,
     includeDirectoryStructure |-> <<FALSE>>, removeComments |-> <<TRUE>>,
     removeEmptyLines |-> <<TRUE>>, showLineNumbers |-> <<TRUE>>,
     includePatterns |-> <<<<"s">>>>, ignorePatterns |-> <<>>]

\* calls in the project directory: no or every other option, each ignorePatterns
ProjectCalls ==
    {[base EXCEPT !.cwd = <<ProjectDir>>, !.ignorePatterns = ip] :
        base \in {NoToolArgs, EveryOption}, ip \in IgnoreArgs}

\* getCodebase: the call without arguments, and the calls in the project directory
GetCodebaseCalls == {NoToolArgs} \cup ProjectCalls

\* saveCodebase: the same calls, outputFile at its default
SaveCodebaseCalls ==
    {[cwd |-> a.cwd, outputFile |-> DefaultOutputFile, format |-> a.format,
      includeFileSummary |-> a.includeFileSummary,
      includeDirectoryStructure |-> a.includeDirectoryStructure,
      removeComments |-> a.removeComments, removeEmptyLines |-> a.removeEmptyLines,
      showLineNumbers |-> a.showLineNumbers, includePatterns |-> a.includePatterns,
      ignorePatterns |-> a.ignorePatterns] : a \in GetCodebaseCalls}

\* sizes of the saved file: empty, 0.005 MB and a bit, 1.5 MB
SavedSizes == {0, 5243, 1572864}

\* how a run of the tool for saveCodebase can end
SaveRuns ==
    {[ok |-> FALSE, created |-> FALSE, size |-> 0], [ok |-> TRUE, created |-> FALSE, size |-> 0]}
        \cup {[ok |-> TRUE, created |-> TRUE, size |-> n] : n \in SavedSizes}

-----------------------------------------------------------------------------
(* The server: bundle files come and go, searchCodebase is invoked.        *)

Init ==
    /\ disk = [n \in FileNames |-> Absent]
    /\ pc = "idle"
    /\ call = NoCall
    /\ fileBlocks = <<>>
    /\ found = 0
    /\ snippetLines = <<>>
    /\ thrown = 0
    /\ content = <<>>
    /\ output = <<>>
    /\ filtered = <<>>
    /\ directoryStructure = <<>>
    /\ summaryBlock = <<>>
    /\ toolOk = TRUE
    /\ toolArgs = NoToolArgs
    /\ ignoreFile = Absent
    /\ command = <<>>
    /\ earlier = NoEarlier

\* the external tool writes its --output file; the model keeps one bundle
\* on disk at a time (an overwrite is a removal followed by a write)
WriteBundle(name) ==
    /\ pc = "idle"
    /\ \A n \in FileNames : disk[n] = Absent
    /\ \E raw \in DumpsOf(name) : disk' = [disk EXCEPT ![name] = RegularFile(raw)]
    /\ UNCHANGED <<pc, searchVars, thrown, content, reportVars, earlier>>

\* the bundle file is deleted
RemoveBundle(name) ==
    /\ pc = "idle"
    /\ disk[name] # Absent
    /\ disk' = [disk EXCEPT ![name] = Absent]
    /\ UNCHANGED <<pc, searchVars, thrown, content, reportVars, earlier>>

\* the bundle path is occupied by a directory
MakeDirectory(name) ==
    /\ pc = "idle"
    /\ \A n \in FileNames : disk[n] = Absent
    /\ disk' = [disk EXCEPT ![name] = Directory]
    /\ UNCHANGED <<pc, searchVars, thrown, content, reportVars, earlier>>

\* one invocation of the searchCodebase handler, from call to response
SearchCodebase ==
    /\ pc = "idle"
    /\ \E args \in Calls :
        \E r \in {SearchHandler(disk, args)} :
            /\ call' = args
            /\ fileBlocks' = r.locals.fileBlocks
            /\ found' = r.locals.found
            /\ snippetLines' = r.locals.snippetLines
            /\ content' = IF r.outcome = "return" THEN r.content ELSE <<>>
            /\ thrown' = IF r.outcome = "throw" THEN thrown + 1 ELSE thrown
    /\ pc' = "searchCodebase"
    /\ UNCHANGED <<disk, reportVars, earlier>>

\* the invocation's locals are gone
ForgetLocals ==
    /\ call' = NoCall
    /\ fileBlocks' = <<>>
    /\ found' = 0
    /\ snippetLines' = <<>>
    /\ content' = <<>>
    /\ output' = <<>>
    /\ filtered' = <<>>
    /\ directoryStructure' = <<>>
    /\ summaryBlock' = <<>>
    /\ toolOk' = TRUE
    /\ toolArgs' = NoToolArgs
    /\ ignoreFile' = Absent
    /\ command' = <<>>

\* the response has been sent; the invocation's locals are gone
Respond ==
    /\ pc # "idle"
    /\ pc' = "idle"
    /\ ForgetLocals
    /\ UNCHANGED <<disk, thrown, earlier>>

\* the response of a searchCodebase invocation has been sent, and its client
\* may keep what it saw of it: the arguments, the bundle file as it was, and
\* the response
Return ==
    /\ pc = "searchCodebase"
    /\ pc' = "idle"
    /\ ForgetLocals
    /\ earlier' \in {earlier,
                     [args |-> call, file |-> disk[CodebaseFile(call)], content |-> content]}
    /\ UNCHANGED <<disk, thrown>>

\* the external tool writes project.codebase anew, over whatever is there
RewriteBundle ==
    /\ pc = "idle"
    /\ \E raw \in RewrittenDumps :
          disk' = [disk EXCEPT ![ProjectCodebase] = RegularFile(raw)]
    /\ UNCHANGED <<pc, searchVars, thrown, content, reportVars, earlier>>

\* one invocation of the getCodebase handler: the command line is built,
\* the external tool runs (and on success leaves its bundle in
\* project.codebase of the working directory), its report is filtered and
\* cut into sections
GetCodebase ==
    /\ pc = "idle"
    /\ \E args \in GetCodebaseCalls :
       \E file \in IgnoreFilesIn(WorkingDir(args)) :
       \E run \in ToolRunsIn(WorkingDir(args)) :
        \E r \in {GetCodebaseHandler(args, file, run)} :
            /\ toolArgs' = args
            /\ ignoreFile' = file
            /\ command' = r.command
            /\ output' = r.output
            /\ filtered' = r.sections.filtered
            /\ directoryStructure' = r.sections.directoryStructure
            /\ summaryBlock' = r.sections.summaryBlock
            /\ content' = IF r.outcome = "return" THEN r.content ELSE <<>>
            /\ thrown' = IF r.outcome = "throw" THEN thrown + 1 ELSE thrown
            /\ toolOk' = (r.command # <<>> /\ run.ok)
            /\ disk' = IF r.command # <<>> /\ run.ok /\ WorkingDir(args) = ProcessCwd
                       THEN [disk EXCEPT ![ProjectCodebase] = RegularFile(ReportedBundle)]
                       ELSE disk
    /\ pc' = "getCodebase"
    /\ UNCHANGED <<searchVars, earlier>>

\* one invocation of the saveCodebase handler: the command line is built,
\* the external tool runs, and the response reports on the file it left
SaveCodebase ==
    /\ pc = "idle"
    /\ \E args \in SaveCodebaseCalls :
       \E file \in IgnoreFilesIn(WorkingDir(args)) :
       \E run \in SaveRuns :
        \E r \in {SaveCodebaseHandler(args, file, run)} :
            /\ toolArgs' = args
            /\ ignoreFile' = file
            /\ command' = r.command
            /\ content' = IF r.outcome = "return" THEN r.content ELSE <<>>
            /\ thrown' = IF r.outcome = "throw" THEN thrown + 1 ELSE thrown
            /\ toolOk' = (r.command # <<>> /\ run.ok)
    /\ pc' = "saveCodebase"
    /\ UNCHANGED <<disk, searchVars, output, filtered, directoryStructure, summaryBlock,
                   earlier>>

Next ==
    \/ \E name \in FileNames : WriteBundle(name)
    \/ \E name \in FileNames : RemoveBundle(name)
    \/ MakeDirectory(ProjectCodebase)
    \/ SearchCodebase
    \/ Respond

Spec == Init /\ [][Next]_vars

\* the server with searchCodebase called again and again while
\* project.codebase is rewritten and removed, a client keeping what it saw
\* of an earlier call
NextCalls ==
    \/ RewriteBundle
    \/ RemoveBundle(ProjectCodebase)
    \/ SearchCodebase
    \/ Return

SpecCalls == Init /\ [][NextCalls]_vars

\* the server with getCodebase and saveCodebase the tools invoked, starting
\* with the bundle of an earlier run on disk
InitReport ==
    /\ disk = [n \in FileNames |->
                 IF n = ProjectCodebase THEN RegularFile(ReportedBundle) ELSE Absent]
    /\ pc = "idle"
    /\ call = NoCall
    /\ fileBlocks = <<>>
    /\ found = 0
    /\ snippetLines = <<>>
    /\ thrown = 0
    /\ content = <<>>
    /\ output = <<>>
    /\ filtered = <<>>
    /\ directoryStructure = <<>>
    /\ summaryBlock = <<>>
    /\ toolOk = TRUE
    /\ toolArgs = NoToolArgs
    /\ ignoreFile = Absent
    /\ command = <<>>
    /\ earlier = NoEarlier

NextReport ==
    \/ GetCodebase
    \/ SaveCodebase
    \/ Respond

SpecReport == InitReport /\ [][NextReport]_vars

-----------------------------------------------------------------------------
(* What the claims are stated in: the bundle a returned searchCodebase     *)
(* invocation read, cut into lines and delimiters without the parse loop.  *)

\* the invocation got as far as reading and parsing the bundle
Parsed ==
    /\ pc = "searchCodebase"
    /\ disk[CodebaseFile(call)].kind = "file"
    /\ ~FileMissing(call)

\* the lines of the bundle that invocation read
BundleLines == SplitLines(disk[CodebaseFile(call)].raw)

IsOpening(line) == XmlMatch(line) # <<>> \/ HashMatch(line) # <<>>
IsDelimiter(line) == IsOpening(line) \/ CloseMatch(line)

SetMin(S) == CHOOSE i \in S : \A j \in S : i <= j

\* positions (1-based) of the opening lines, and the k-th of them
Openers(lines) == {i \in 1..Len(lines) : IsOpening(lines[i])}
OpenerAt(lines, k) ==
    LET openers == Openers(lines)
    IN  CHOOSE p \in openers : Cardinality({q \in openers : q <= p}) = k

\* position of the first delimiter after p, or one past the end
NextDelimiter(lines, p) ==
    SetMin({j \in (p + 1)..Len(lines) : IsDelimiter(lines[j])} \cup {Len(lines) + 1})

\* the positions of the lines lying between the k-th opening line and the next delimiter
Run(lines, k) == (OpenerAt(lines, k) + 1)..(NextDelimiter(lines, OpenerAt(lines, k)) - 1)

\* positions of non-delimiter lines whose nearest delimiter before them is
\* an opening line: the lines lying inside an open record
InsideOpenRecord(lines) ==
    LET openers    == Openers(lines)
        delimiters == {j \in 1..Len(lines) : IsDelimiter(lines[j])}
    IN  {i \in 1..Len(lines) \ delimiters :
            \E p \in openers : p < i /\ (p + 1)..(i - 1) \cap delimiters = {}}

RECURSIVE SumOfContentLengths(_)
SumOfContentLengths(blocks) ==
    IF blocks = <<>> THEN 0
    ELSE Len(blocks[1].content) + SumOfContentLengths(Tail(blocks))

\* the text of the one response item
ResponseText == content[1].text

\* the first line of a file response and its line break
ResponseHeader == XmlOpenLine(fileBlocks[found].path) \o <<"\n">>

\* what a file response carries between its first and its last line
ResponseBody ==
    Slice(ResponseText, Len(ResponseHeader), Len(ResponseText) - Len(XmlClose) - 1)

\* the response is a file response around some body
IsFileResponse ==
    /\ Len(content) = 1
    /\ content[1].type = "text"
    /\ StartsWithAt(ResponseText, ResponseHeader, 0)
    /\ EndsWith(ResponseText, <<"\n">> \o XmlClose)
    /\ Len(ResponseText) >= Len(ResponseHeader) + 1 + Len(XmlClose)

\* the limit in force: the explicit maxLines, 40 when it is omitted
LimitInForce == IF call.maxLines = <<>> THEN 40 ELSE call.maxLines[1]

-----------------------------------------------------------------------------
\* C1: the content of the k-th record is exactly the run of lines between
\* the k-th opening line and the next delimiter line (or the end of the
\* bundle), verbatim and in order; the runs of two records share no line,
\* and the records together hold exactly the non-delimiter lines that lie
\* inside an open record, so a line outside any open record is in no record.
C1_ContentIsRunBetweenDelimiters ==
    Parsed =>
        LET lines == BundleLines
        IN  /\ Len(fileBlocks) = Cardinality(Openers(lines))
            /\ \A k \in 1..Len(fileBlocks) :
                  fileBlocks[k].content =
                      [i \in 1..Cardinality(Run(lines, k)) |-> lines[OpenerAt(lines, k) + i]]
            /\ \A k1, k2 \in 1..Len(fileBlocks) :
                  k1 # k2 => Run(lines, k1) \cap Run(lines, k2) = {}
            /\ SumOfContentLengths(fileBlocks) = Cardinality(InsideOpenRecord(lines))

\* C1 witness: two records with content, and a content-like line between a
\* closing tag and the next opening line that no record holds
C1_Witness ==
    /\ Parsed
    /\ Len(fileBlocks) = 2
    /\ fileBlocks[1].content # <<>>
    /\ fileBlocks[2].content # <<>>
    /\ \E i \in 1..Len(BundleLines) :
          ~IsDelimiter(BundleLines[i]) /\ i \notin InsideOpenRecord(BundleLines)

-----------------------------------------------------------------------------
\* the records whose normalized path equals the normalized requested path,
\* exactly and ignoring letter case
ExactMatches ==
    {k \in 1..Len(fileBlocks) :
        normalizePath(fileBlocks[k].path) = normalizePath(call.file[1])}
CaseInsensitiveMatches ==
    {k \in 1..Len(fileBlocks) :
        ToLowerCase(normalizePath(fileBlocks[k].path))
            = ToLowerCase(normalizePath(call.file[1]))}

NotFoundText == MsgNotFoundHead \o call.file[1] \o MsgNotFoundTail

\* C2: the lookup returns the first record (in bundle order) whose
\* normalized path equals the normalized requested path exactly, whatever
\* precedes it; when there is none, the first record equal to it ignoring
\* letter case; when there is none either, the response is "not found".
C2_ExactThenCaseInsensitiveFirstWins ==
    Parsed =>
        IF ExactMatches # {}
        THEN found = SetMin(ExactMatches) /\ IsFileResponse
        ELSE IF CaseInsensitiveMatches # {}
        THEN found = SetMin(CaseInsensitiveMatches) /\ IsFileResponse
        ELSE found = 0 /\ content = TextResponse(NotFoundText)

\* C2 witness: an exact match is returned although an earlier record
\* matches ignoring letter case only
C2_Witness ==
    /\ Parsed
    /\ ExactMatches # {}
    /\ SetMin(CaseInsensitiveMatches) < SetMin(ExactMatches)
    /\ found = SetMin(ExactMatches)

\* C3: whenever the bundle holds a record stored as a/b, a request spelling
\* that path with a leading ./, with a backslash separator, with a blank
\* before or after it, or with any combination of these, finds a record
\* stored as a/b.
C3_EverySpellingFindsTheRecord ==
    (/\ Parsed
     /\ call.file[1] \in Spellings
     /\ \E k \in 1..Len(fileBlocks) : fileBlocks[k].path = PathAB)
        => (found # 0 /\ fileBlocks[found].path = PathAB)

\* the rendering ` {index}: {line text}` of the k-th line of a record
NumberedLine(k, text) == <<" ">> \o NumberToString(k) \o <<":", " ">> \o text

\* C4: when a record is extracted with maxLines equal to the number of its
\* content lines, the body of the response is those lines, in order, each
\* rendered as ` {index}: {line text}` with its text unchanged.
C4_ExtractionReproducesEveryLine ==
    (/\ Parsed
     /\ found # 0
     /\ LimitInForce = Len(fileBlocks[found].content))
        => /\ IsFileResponse
           /\ LET L == fileBlocks[found].content
               IN  ResponseBody = JoinLines([k \in 1..Len(L) |-> NumberedLine(k, L[k])])

\* C5: the excerpt is made of exactly the first min(maxLines, length)
\* content lines of the record found, 40 standing for an omitted maxLines:
\* these are the lines rendered, the body has one numbered line for each of
\* them, numbered from 1, and it is empty when there are none.
C5_ExcerptIsFirstMinLines ==
    (Parsed /\ found # 0) =>
        LET L == fileBlocks[found].content
            n == Min(LimitInForce, Len(L))
            bodyLines == SplitLines(ResponseBody)
        IN  /\ IsFileResponse
            /\ snippetLines = SubSeq(L, 1, n)
            /\ n = 0 => ResponseBody = <<>>
            /\ n > 0 =>
                  /\ Len(bodyLines) = n
                  /\ \A k \in 1..n :
                        StartsWithAt(TrimStart(bodyLines[k]),
                                     NumberToString(k) \o <<":">>, 0)

\* C5 witness: maxLines omitted and a record longer than 40 lines, cut at 40
C5_Witness ==
    /\ Parsed
    /\ found # 0
    /\ call.maxLines = <<>>
    /\ Len(fileBlocks[found].content) > 40
    /\ Len(snippetLines) = 40

\* C9: a searchCodebase invocation returns one text item and no exception
\* leaves it: "Codebase file not found: <path>" when the bundle file does not
\* exist, else "Parameter 'file' is required." when `file` is omitted or
\* empty, else "Error while extracting file: <message>" when reading the
\* bundle throws, else "File "<file>" not found in codebase." when no record
\* matches, else the file response.
C9_AlwaysOneTextResponse ==
    pc = "searchCodebase" =>
        /\ thrown = 0
        /\ Len(content) = 1
        /\ content[1].type = "text"
        /\ IF disk[CodebaseFile(call)].kind = "absent"
           THEN ResponseText = MsgCodebaseNotFound \o CodebaseFile(call)
           ELSE IF FileMissing(call)
           THEN ResponseText = MsgFileRequired
           ELSE IF disk[CodebaseFile(call)].kind = "dir"
           THEN ResponseText = MsgExtractError \o MsgEISDIR
           ELSE IF CaseInsensitiveMatches = {}
           THEN ResponseText = NotFoundText
           ELSE IsFileResponse

\* C9 witness: reading the bundle threw, and the response is the error text
C9_Witness ==
    /\ pc = "searchCodebase"
    /\ disk[CodebaseFile(call)].kind = "dir"
    /\ ~FileMissing(call)
    /\ thrown = 0
    /\ content = TextResponse(MsgExtractError \o MsgEISDIR)

\* C10: in a bundle whose delimiter lines are exactly an XML opening line,
\* later a closing tag, later a heading line, the index holds exactly two
\* records: the first has the path of the XML line and the lines between it
\* and the closing tag, the second the path of the heading and the lines
\* after the heading.
C10_XmlThenHeadingGivesTwoRecords ==
    Parsed =>
        LET lines == BundleLines
            delims == {i \in 1..Len(lines) : IsDelimiter(lines[i])}
        IN  \A p, q, h \in delims :
                (/\ delims = {p, q, h}
                 /\ p < q /\ q < h
                 /\ XmlMatch(lines[p]) # <<>>
                 /\ CloseMatch(lines[q])
                 /\ HashMatch(lines[h]) # <<>>)
                => /\ Len(fileBlocks) = 2
                   /\ fileBlocks[1].path = Trim(XmlMatch(lines[p])[1])
                   /\ fileBlocks[1].content = SubSeq(lines, p + 1, q - 1)
                   /\ fileBlocks[2].path = Trim(HashMatch(lines[h])[1])
                   /\ fileBlocks[2].content = SubSeq(lines, h + 1, Len(lines))

\* C10 witness: such a bundle with lines in both blocks and a line between
\* the closing tag and the heading
C10_Witness ==
    /\ Parsed
    /\ LET lines == BundleLines
           delims == {i \in 1..Len(lines) : IsDelimiter(lines[i])}
       IN  \E p, q, h \in delims :
               /\ delims = {p, q, h}
               /\ p < q - 1 /\ q < h - 1 /\ h < Len(lines)
               /\ XmlMatch(lines[p]) # <<>>
               /\ CloseMatch(lines[q])
               /\ HashMatch(lines[h]) # <<>>
    /\ Len(fileBlocks) = 2
    /\ fileBlocks[1].content # <<>>
    /\ fileBlocks[2].content # <<>>

-----------------------------------------------------------------------------
(* What the getCodebase claims are stated in: the report a returned        *)
(* invocation received, cut into lines without the handler's searches.     *)

\* getCodebase returned after the external tool ran to its end
Reported == pc = "getCodebase" /\ toolOk

\* the line holds one of the banner strings, the tool's name in any letter case
ContainsBanner(line) ==
    \/ Includes(line, BannerAvailable)
    \/ Includes(line, BannerUrl)
    \/ Includes(ToLowerCase(line), BannerName)
    \/ Includes(line, BannerSlogan)

NoBanner(line) == ~ContainsBanner(line)

\* the lines of the report, and those of them that hold no banner
OutputLines == SplitLines(output)
KeptLines == SelectSeq(OutputLines, NoBanner)

\* a "Directory Structure" heading line, in any letter case, with or without colon
IsHeadingLine(line) ==
    ToLowerCase(line) \in {DirectoryStructureLower, DirectoryStructureLower \o <<":">>}

HasHeading(text) == Includes(ToLowerCase(text), DirectoryStructureLower)
HasMarker(text) == Includes(text, PackSummary) \/ Includes(text, TotalFiles)
HasColonMarker(text) == Includes(text, PackSummaryColon) \/ Includes(text, TotalFilesColon)

\* The kept lines are: lines with neither heading nor colon marker, a heading
\* at h, marker-free tree lines, at m a line starting with `marker`, then
\* whatever follows.
HeadingTreeMarkerStats(kept, h, m, marker) ==
    /\ h < m
    /\ IsHeadingLine(kept[h])
    /\ \A i \in 1..(h - 1) : ~HasHeading(kept[i]) /\ ~HasColonMarker(kept[i])
    /\ \A i \in (h + 1)..(m - 1) : ~HasMarker(kept[i])
    /\ StartsWithAt(kept[m], marker, 0)

\* what the response is for these two sections
ExpectedContent(dirStructure, summary) ==
    IF dirStructure = <<>>
    THEN <<[type |-> "text", text |-> summary]>>
    ELSE <<[type |-> "text",
            text |-> DirectoryStructureOpen \o dirStructure \o DirectoryStructureClose],
           [type |-> "text", text |-> summary]>>

\* the sections are the tree lines h+1..m-1 and the lines from m on
SectionsAre(kept, h, m) ==
    /\ directoryStructure = Trim(JoinLines(SubSeq(kept, h + 1, m - 1)))
    /\ summaryBlock = Trim(JoinLines(SubSeq(kept, m, Len(kept))))
    /\ content = ExpectedContent(directoryStructure, summaryBlock)

LastTwentyLines(text) ==
    LET ls == SplitLines(text)
    IN  JoinLines(SubSeq(ls, Max(1, Len(ls) - 19), Len(ls)))

\* C7 as stated: a report with neither "Pack Summary" nor "Total Files"
\* gives the last 20 lines of the filtered text as summary, and no
\* directoryStructure.
C7_Original_NoDirectoryStructure ==
    (Reported /\ ~HasMarker(output)) =>
        /\ summaryBlock = LastTwentyLines(filtered)
        /\ directoryStructure = <<>>

\* C7 amended: such a report gives the last 20 lines of the filtered text
\* as summary; directoryStructure is absent, and the response is the summary
\* alone, when the filtered text has no "Directory Structure" heading; when
\* it has one, directoryStructure is the text after the heading, trimmed.
C7_FallbackSummaryAndHeadingRule ==
    (Reported /\ ~HasMarker(output)) =>
        /\ summaryBlock = LastTwentyLines(filtered)
        /\ ~HasHeading(filtered) =>
              /\ directoryStructure = <<>>
              /\ content = <<[type |-> "text", text |-> summaryBlock]>>
        /\ HasHeading(filtered) =>
              LET at == IndexOf(ToLowerCase(filtered), DirectoryStructureLower, 0)
                  after == at + Len(DirectoryStructureLower)
              IN  /\ directoryStructure =
                        Trim(SliceFrom(filtered,
                                       IF StartsWithAt(filtered, <<":">>, after)
                                       THEN after + 1 ELSE after))
                  /\ content = ExpectedContent(directoryStructure, summaryBlock)

\* C7 witness: no marker, no heading, more than 20 filtered lines: the
\* summary is 20 lines, not the whole text
C7_Witness ==
    /\ Reported
    /\ ~HasMarker(output)
    /\ ~HasHeading(filtered)
    /\ Len(SplitLines(filtered)) > 20
    /\ Len(SplitLines(summaryBlock)) = 20
    /\ directoryStructure = <<>>

\* C8: no line of the filtered text, of directoryStructure, of the summary
\* (marker-based or fallback) or of a response item holds a banner string.
C8_NoBannerLineSurvives ==
    Reported =>
        /\ \A text \in {filtered, directoryStructure, summaryBlock} :
              \A i \in 1..Len(SplitLines(text)) : ~ContainsBanner(SplitLines(text)[i])
        /\ \A k \in 1..Len(content) : ~ContainsBanner(content[k].text)

\* C8 witness: a banner line after the heading and before the last line of
\* the report, a directory structure, and the fallback summary
C8_Witness ==
    /\ Reported
    /\ \E i, h \in 1..Len(OutputLines) :
          /\ h < i /\ i < Len(OutputLines)
          /\ IsHeadingLine(OutputLines[h])
          /\ ContainsBanner(OutputLines[i])
          /\ ~ContainsBanner(OutputLines[Len(OutputLines)])
    /\ directoryStructure # <<>>
    /\ ~HasColonMarker(filtered)
    /\ summaryBlock = LastTwentyLines(filtered)

-----------------------------------------------------------------------------
\* the record sealed last
LastRecord == fileBlocks[Len(fileBlocks)]

\* the bundle ends while the heading-style record opened at line h is open:
\* line h is a `# File: ...` line and no delimiter line follows it
EndsInsideHeadingRecord(lines, h) ==
    /\ HashMatch(lines[h]) # <<>>
    /\ \A j \in (h + 1)..Len(lines) : ~IsDelimiter(lines[j])

\* C11: when the bundle ends while a heading-style record is open, that
\* record is sealed at the end of input: it is the last record of the index,
\* its path is the heading's, and its content is every line of the bundle
\* after the heading line, in order.
C11_UnclosedHeadingRecordSealedAtEnd ==
    Parsed =>
        LET lines == BundleLines
        IN  \A h \in 1..Len(lines) :
                EndsInsideHeadingRecord(lines, h)
                    => /\ fileBlocks # <<>>
                       /\ LastRecord.path = Trim(HashMatch(lines[h])[1])
                       /\ LastRecord.content = SubSeq(lines, h + 1, Len(lines))

\* C11 witness: a record before the heading, and after the heading lines up
\* to the end of the bundle, an empty one among them
C11_Witness ==
    /\ Parsed
    /\ \E h \in 2..Len(BundleLines) :
          /\ EndsInsideHeadingRecord(BundleLines, h)
          /\ h < Len(BundleLines)
          /\ \E j \in (h + 1)..Len(BundleLines) : BundleLines[j] = <<>>
    /\ Len(fileBlocks) = 2
    /\ LastRecord.content # <<>>

-----------------------------------------------------------------------------
(* What the ignore-pattern claim is stated in: the arguments and the       *)
(* .codebaseignore of an invocation that ran a command, without the merge. *)

\* getCodebase or saveCodebase returned after giving a command to the tool
Commanded == pc \in {"getCodebase", "saveCodebase"} /\ command # <<>>

\* the k-th smallest element of a set of positions
KthOf(S, k) == CHOOSE p \in S : Cardinality({q \in S : q <= p}) = k

\* the caller-supplied pattern string, as a sequence of none or one
CallerPatterns ==
    IF toolArgs.ignorePatterns # <<>> /\ toolArgs.ignorePatterns[1] # <<>>
    THEN <<toolArgs.ignorePatterns[1]>>
    ELSE <<>>

\* the file-sourced patterns: the trimmed lines of .codebaseignore that are
\* neither blank nor comments, in file order; none when the file is absent
FilePatterns ==
    IF ignoreFile.kind # "file" THEN <<>>
    ELSE LET lines == SplitLines(ignoreFile.raw)
             kept  == {i \in 1..Len(lines) :
                          Trim(lines[i]) # <<>> /\ Trim(lines[i])[1] # "#"}
         IN  [k \in 1..Cardinality(kept) |-> Trim(lines[KthOf(kept, k)])]

\* --ignore, the name of the option
IgnoreOptionName == <<" ", "-", "-", "i", "g", "n", "o", "r", "e">>

\* the indices (0-based) at which sub occurs in text
OccurrencesOf(text, sub) ==
    {i \in 0..(Len(text) - Len(sub)) : StartsWithAt(text, sub, i)}

\* C12: the command getCodebase or saveCodebase gives to the external tool
\* ends with the one option --ignore "<patterns>", the patterns being the
\* caller's string first, then the trimmed non-blank non-comment lines of
\* .codebaseignore in file order, joined by commas; with an absent file (or
\* one holding no pattern) they are the caller's alone, and when neither
\* source supplies a pattern the command holds no --ignore option.
C12_IgnoreOptionIsCallerThenFile ==
    Commanded =>
        LET patterns == CallerPatterns \o FilePatterns
            option   == OptIgnore \o JoinCommas(patterns) \o Quote
        IN  IF patterns = <<>>
            THEN OccurrencesOf(command, IgnoreOptionName) = {}
            ELSE /\ EndsWith(command, option)
                 /\ OccurrencesOf(command, IgnoreOptionName)
                        = {Len(command) - Len(option)}

\* C12 witness: getCodebase with caller patterns and a .codebaseignore of a
\* comment line and a padded pattern line: the option holds the caller's
\* patterns, then the file's
C12_Witness ==
    /\ Commanded
    /\ pc = "getCodebase"
    /\ CallerPatterns # <<>>
    /\ Len(FilePatterns) = 1
    /\ Len(SplitLines(ignoreFile.raw)) = 2
    /\ FilePatterns[1] # SplitLines(ignoreFile.raw)[2]
    /\ EndsWith(command, <<",">> \o FilePatterns[1] \o Quote)

-----------------------------------------------------------------------------
\* where the first "Directory Structure" heading of a text starts (0-based),
\* in any letter case; the text must hold one
FirstHeading(text) == SetMin(OccurrencesOf(ToLowerCase(text), DirectoryStructureLower))

\* where the text after that heading starts: past the heading and its colon, if any
AfterHeading(text) ==
    LET past == FirstHeading(text) + Len(DirectoryStructureLower)
    IN  IF past < Len(text) /\ text[past + 1] = ":" THEN past + 1 ELSE past

\* where the section ends: the smallest among the occurrences of "Pack
\* Summary" and of "Total Files" after the heading's start, and the end of the text
SectionEnd(text) ==
    SetMin({i \in OccurrencesOf(text, PackSummary) \cup OccurrencesOf(text, TotalFiles) :
                i > FirstHeading(text)}
           \cup {Len(text)})

\* C13: when the filtered text holds a "Directory Structure" heading (any
\* letter case, with or without colon), directoryStructure is the text from
\* just after the first heading to the nearest following "Pack Summary" or
\* "Total Files", or to the end of the text, trimmed; when it holds none,
\* directoryStructure is empty and the response is the summary alone. A
\* directory-structure item is in the response exactly when directoryStructure
\* is not empty.
C13_DirectoryStructureBoundary ==
    Reported =>
        /\ IF HasHeading(filtered)
           THEN directoryStructure =
                    Trim(SubSeq(filtered, AfterHeading(filtered) + 1, SectionEnd(filtered)))
           ELSE directoryStructure = <<>>
        /\ content = ExpectedContent(directoryStructure, summaryBlock)

\* C13 witness: a lower-case heading, tree text, then "Total Files" before
\* "Pack Summary": the section ends at "Total Files"
C13_Witness ==
    /\ Reported
    /\ HasHeading(filtered)
    /\ ~Includes(filtered, SubSeq(HeadingWithColon, 1, 19))
    /\ \E p \in OccurrencesOf(filtered, PackSummary) :
          /\ SectionEnd(filtered) < p
          /\ SectionEnd(filtered) \in OccurrencesOf(filtered, TotalFiles)
    /\ directoryStructure # <<>>
    /\ Len(content) = 2

-----------------------------------------------------------------------------
\* what an opening line captures: the path attribute or the heading's value
CapturedBy(line) ==
    IF XmlMatch(line) # <<>> THEN XmlMatch(line)[1] ELSE HashMatch(line)[1]

\* the k-th opening line is followed at once by a delimiter line or by the
\* end of the bundle
NothingAfterOpener(lines, k) ==
    NextDelimiter(lines, OpenerAt(lines, k)) = OpenerAt(lines, k) + 1

\* C15: the index holds exactly one record per opening line of the bundle,
\* in the order of those lines, the k-th with the trimmed value captured by
\* the k-th opening line as path; a record whose opening line is followed at
\* once by a delimiter or by the end of the bundle is in the index with no
\* content line; a bundle without opening line (the empty bundle among them)
\* gives an empty index.
C15_OneRecordPerOpeningLine ==
    Parsed =>
        LET lines == BundleLines
        IN  /\ Len(fileBlocks) = Cardinality(Openers(lines))
            /\ \A k \in 1..Cardinality(Openers(lines)) :
                  /\ fileBlocks[k].path = Trim(CapturedBy(lines[OpenerAt(lines, k)]))
                  /\ NothingAfterOpener(lines, k) => fileBlocks[k].content = <<>>
            /\ Openers(lines) = {} => fileBlocks = <<>>

\* C15 witness: an opening line of each syntax, the first followed at once
\* by the second and the second by the end of the bundle: two records
\* without content
C15_Witness ==
    /\ Parsed
    /\ Cardinality(Openers(BundleLines)) = 2
    /\ NothingAfterOpener(BundleLines, 1)
    /\ NothingAfterOpener(BundleLines, 2)
    /\ XmlMatch(BundleLines[OpenerAt(BundleLines, 1)]) # <<>>
    /\ HashMatch(BundleLines[OpenerAt(BundleLines, 2)]) # <<>>
    /\ Len(fileBlocks) = 2
    /\ fileBlocks[1].content = <<>>
    /\ fileBlocks[2].content = <<>>

-----------------------------------------------------------------------------
(* What the claim on invocations is stated in: the index and the response  *)
(* that the arguments and the bundle file as it is now determine.          *)

\* the records of a bundle, read off its lines: one per opening line, with
\* the lines up to the next delimiter
RecordsOf(lines) ==
    [k \in 1..Cardinality(Openers(lines)) |->
        [path    |-> Trim(CapturedBy(lines[OpenerAt(lines, k)])),
         content |-> SubSeq(lines, OpenerAt(lines, k) + 1,
                            NextDelimiter(lines, OpenerAt(lines, k)) - 1)]]

\* the response the arguments of the invocation that returned and the
\* bundle file as it is now determine
DeterminedResponse ==
    LET file == disk[CodebaseFile(call)]
        idx  == RecordsOf(SplitLines(file.raw))
        at   == FindBlock(idx, normalizePath(call.file[1]))
    IN  IF file.kind = "absent"
        THEN TextResponse(MsgCodebaseNotFound \o CodebaseFile(call))
        ELSE IF FileMissing(call) THEN TextResponse(MsgFileRequired)
        ELSE IF file.kind = "dir" THEN TextResponse(MsgExtractError \o MsgEISDIR)
        ELSE IF at = 0 THEN TextResponse(NotFoundText)
        ELSE TextResponse(FileText(idx[at].path,
                                   SnippetLines(idx[at].content, call.maxLines)))

\* the invocation that returned had the arguments of the earlier one and
\* found the bundle file as the earlier one did
SameCallAsEarlier ==
    /\ pc = "searchCodebase"
    /\ earlier # NoEarlier
    /\ earlier.args = call
    /\ earlier.file = disk[CodebaseFile(call)]

\* C14: the response of a searchCodebase invocation is determined by its
\* arguments and by the bundle file as it is at that invocation, whatever
\* invocations and changes of the file came before: the index is parsed from
\* the file as it is now, the response is the one these two determine, and
\* an invocation with the arguments of an earlier one over an equal file
\* returns the earlier one's response.
C14_ResponseOfArgumentsAndFileOnly ==
    pc = "searchCodebase" =>
        /\ Parsed => fileBlocks = RecordsOf(BundleLines)
        /\ content = DeterminedResponse
        /\ SameCallAsEarlier => content = earlier.content

\* C14 witness: a file response equal to that of an earlier invocation with
\* the same arguments over an equal file
C14_Witness ==
    /\ SameCallAsEarlier
    /\ Parsed
    /\ found # 0
    /\ IsFileResponse
    /\ content = earlier.content

\* the invocation that returned had the arguments of the earlier one, the
\* bundle file was rewritten in between, and the response is another
C14_ChangedFileChangesResponse ==
    /\ pc = "searchCodebase"
    /\ earlier.args = call
    /\ earlier.file.kind = "file"
    /\ Parsed
    /\ earlier.file # disk[CodebaseFile(call)]
    /\ content # earlier.content

TypeOK == pc \in {"idle", "searchCodebase", "getCodebase", "saveCodebase"} /\ Len(content) <= 2

====
